---- MODULE Spec2Model ----
(***************************************************************************)
(* A model of musicbrainz-release-grabber: the artist search               *)
(* (responses.rs, Artist::new), the paginated release fetch                *)
(* (Artist::get_albums) with the rate limiter's wait loop in front of      *)
(* every request, the release pipeline                                     *)
(* (Artist::get_albums_basic_filtered), the discovery run and the          *)
(* configuration commands (main.rs) and the curation session (tui.rs).     *)
(* The title deduplication of the pipeline and the bump-back command are   *)
(* also followed on their own, over lists and day counts of every kind.    *)
(*                                                                         *)
(* Strings (artist names, titles) are modelled by natural numbers ordered  *)
(* as the strings are; calendar dates are day numbers counted from         *)
(* 2024-01-01 = 1.                                                         *)
(***************************************************************************)
EXTENDS Integers, Sequences, FiniteSets, TLC

\* ------------------------------------------------------------------------
\* Bounds of the model
\* ------------------------------------------------------------------------
\* largest total-count hint ("release-count") a server reports
MaxHint == 250
\* most requests one get_albums call is followed for
MaxRequests == 4

\* ------------------------------------------------------------------------
\* Program constants
\* ------------------------------------------------------------------------
\* responses.rs:10, the "limit" sent with every release-group request
HOW_MANY_RELEASE_RESULT == 100
\* responses.rs:102, 134, 156: `for _ in 0..10`, the turns of the wait loop in
\* front of every request
GATE_TRIES == 10

\* an absent optional number (Option::None): hints, offsets, dates and
\* selections are naturals, so -1 stands for none of them
None == -1

VARIABLES
    \* --- Artist::get_albums, one call --------------------------------
    server,         \* the catalog service this call talks to
    fpc,            \* where get_albums is: "start", "paging", "done", "failed"
    all_releases,   \* all_releases.len(): records accumulated so far
    total_results,  \* the hint read from the first response
    requests,       \* number of requests sent so far
    offsets,        \* the "offset" parameter of every request sent, in order
    returned,       \* what get_albums returned: [ok |-> .., len |-> ..]
    \* --- the rate limiter's wait loop in front of a request ------------
    gate_tries,     \* try_wait calls made for the request that comes next
    gate_waits,     \* how many of the calls of the last loop answered Err(sleep)
    \* --- Artist::new, one call ----------------------------------------
    rpc,            \* "stored": self was read from config.json, no call;
                    \* "start", "done", "not_found", "failed"
    search,         \* s, the search string
    resp,           \* resp.artists of the search response, as <<id, name>>
    artist_found,     \* the Artist the call returned
    \* --- Artist::get_albums_basic_filtered, one call ------------------
    self_name,      \* self.name, the artist's canonical display name
    wire,           \* the release groups the server sent, over all pages
    ppc,            \* "call" before the call, "returned" after it
    result,         \* what the call returned: [ok |-> .., albums |-> ..]
    \* --- the program of main.rs --------------------------------------
    today,          \* OffsetDateTime::now_utc().date()
    config,         \* the stored config.json
    pc,             \* "idle"; "new", "ran": grab_new_releases running, returned;
                    \* "fill", "filled": get_artist_ids running, returned;
                    \* "bumped": bump-back returned; "panicked"
    since,          \* c.last_checked_time as read when the run started
    idx,            \* position of the roster iterator of grab_new_releases
    all_albums,     \* grab_new_releases: the albums appended so far
    errors,         \* grab_new_releases: artists whose fetch failed, in order
    fetched,        \* what get_albums gave for each artist processed so far
    others,         \* the "Others" list the run printed
    albums,         \* the "Albums" list the run printed
    todo,           \* get_artist_ids: names still to resolve
    found,          \* get_artist_ids: artists pushed so far, in order
    error_artist,   \* get_artist_ids: names whose resolution failed, in order
    \* --- the curation session of tui.rs ------------------------------
    init_tui,       \* the InitTui the session was started with
    app_albums,     \* app_state.albums, the editable session list
    app_other,      \* app_state.other, the read-only list
    selected,       \* app_state.table_state.selected(), 0-based, or None
    tpc,            \* "closed", "browsing", "saved", "not_saved", "panicked"
    removed,        \* ids of the entries the operator removed so far
    \* --- the title deduplication of responses.rs 214-215, repeated ----
    deduped,        \* a list of albums and what each application made of it
    \* --- the bump-back command ----------------------------------------
    days_arg        \* the u64 `days` of the command line, eight bytes,
                    \* the lowest first

gateVars == <<gate_tries, gate_waits>>
resolveVars == <<rpc, search, resp, artist_found>>
getAlbumsVars == <<server, fpc, all_releases, total_results, requests, offsets,
                   returned>>
fetchVars == <<getAlbumsVars, gateVars, resolveVars>>
pipeVars == <<self_name, wire, ppc, result>>
runVars == <<since, idx, all_albums, errors, fetched, others, albums>>
fillVars == <<todo, found, error_artist>>
mainVars == <<today, config, pc, runVars, fillVars>>
tuiVars == <<init_tui, app_albums, app_other, selected, tpc, removed>>

stepVars == <<deduped, days_arg>>

vars == <<fetchVars, pipeVars, mainVars, tuiVars, stepVars>>

\* ========================================================================
\* Helpers
\* ========================================================================
Min(a, b) == IF a < b THEN a ELSE b
Max(a, b) == IF a > b THEN a ELSE b
CeilDiv(a, b) == (a + b - 1) \div b

\* ========================================================================
\* Records of the catalog protocol and the release pipeline
\* ========================================================================
\* enum ReleaseType  (responses.rs 258-280), by the names serde accepts
ReleaseType ==
    {"None", "EP", "Album", "Single", "Other", "Broadcast", "Compilation",
     "Spokenword", "Interview", "Soundtrack", "Audiobook", "DJ-mix",
     "Mixtape/Street", "Live", "Remix", "Demo", "Audio drama"}

\* a "primary-type" that is null or missing on the wire (Option::None)
NullType == "null"

\* struct ReleaseGroup as it is on the wire  (responses.rs 233-243).
\* first_release_date is the date string split at its dashes into numbers:
\* <<>> is an absent or empty string, <<2024>> is "2024", <<2024, 1>> is
\* "2024-01", <<2024, 1, 2>> is "2024-01-02".
RawRelease(id, title, primary_type, first_release_date, secondary_types) ==
    [id |-> id, title |-> title, primary_type |-> primary_type,
     first_release_date |-> first_release_date,
     secondary_types |-> secondary_types]

\* struct Album  (responses.rs 61-73)
Album(id, artist, title, date, release_type) ==
    [id |-> id, artist |-> artist, title |-> title, date |-> date,
     release_type |-> release_type]

\* the year the modelled calendar covers: day 1 is 2024-01-01
BaseYear == 2024
DaysInMonth == <<31, 29, 31, 30, 31, 30, 31, 31, 30, 31, 30, 31>>

RECURSIVE DaysBefore(_)
\* days of BaseYear before month m
DaysBefore(m) == IF m <= 1 THEN 0 ELSE DaysInMonth[m - 1] + DaysBefore(m - 1)

\* Date::parse(&s, "[year]-[month]-[day]").ok()  (responses.rs 192, 199):
\* all three components are required and must name a calendar day
ParseDateLenient(s) ==
    IF Len(s) >= 1 /\ s[1] = BaseYear
    THEN (IF Len(s) >= 2 /\ s[2] \in 1..12
          THEN DaysBefore(s[2]) + (IF Len(s) >= 3 THEN s[3] ELSE 1)
          ELSE 1)
    ELSE None
ParseDate(s) ==
    IF /\ Len(s) = 3
       /\ s[1] = BaseYear
       /\ s[2] \in 1..12
       /\ s[3] \in 1..DaysInMonth[s[2]]
    THEN DaysBefore(s[2]) + s[3]
    ELSE None

\* serde's decoding of a response body (responses.rs 151, 177, 238, 258):
\* a primary-type outside the enum makes the whole body undecodable
Decodes(raw) ==
    \A i \in 1..Len(raw) : raw[i].primary_type \in ReleaseType \cup {NullType}

\* .filter(|a| a.primary_type == Some(ReleaseType::Album))  (responses.rs 195)
TypeAccepted(a) == a.primary_type = "Album"

\* a.secondary_types.first().unwrap_or(&ReleaseType::Album)  (responses.rs 205-209)
ReleaseTypeOfPrimary(a) == a.primary_type
ReleaseTypeOf(a) ==
    IF Len(a.secondary_types) > 0 THEN a.secondary_types[1] ELSE "Album"

\* the closure of .map(..)  (responses.rs 196-211)
ToAlbum(name, a) ==
    Album(a.id, name, a.title, ParseDate(a.first_release_date), ReleaseTypeOf(a))

\* the key a list is sorted by: "title", "date" or "id"
KeyOf(a, k) ==
    IF k = "title" THEN a.title ELSE IF k = "date" THEN a.date ELSE a.id

\* x put into the sorted list s behind every element whose key is <= its own
RECURSIVE InsertByKey(_, _, _)
InsertByKey(s, x, k) ==
    IF s = <<>> THEN <<x>>
    ELSE IF KeyOf(s[Len(s)], k) <= KeyOf(x, k) THEN Append(s, x)
    ELSE Append(InsertByKey(SubSeq(s, 1, Len(s) - 1), x, k), s[Len(s)])

\* slice::sort_by_key, a stable sort  (responses.rs 214, 216)
RECURSIVE SortByKey(_, _)
SortByKey(s, k) ==
    IF s = <<>> THEN <<>>
    ELSE InsertByKey(SortByKey(SubSeq(s, 1, Len(s) - 1), k), s[Len(s)], k)

\* a dedup_by that looks at the albums two by two
RECURSIVE DedupByTitlePairwise(_)
DedupByTitlePairwise(s) ==
    IF Len(s) <= 1 THEN s
    ELSE IF s[1].title = s[2].title
    THEN <<s[1]>> \o DedupByTitlePairwise(SubSeq(s, 3, Len(s)))
    ELSE <<s[1]>> \o DedupByTitlePairwise(SubSeq(s, 2, Len(s)))

\* Vec::dedup_by(|a, b| a.title.eq(&b.title))  (responses.rs 215): of each
\* run of consecutive equal titles the first element stays
RECURSIVE DedupByTitle(_)
DedupByTitle(s) ==
    IF Len(s) <= 1 THEN s
    ELSE LET front == DedupByTitle(SubSeq(s, 1, Len(s) - 1))
             x == s[Len(s)]
         IN  IF front[Len(front)].title = x.title THEN front
             ELSE Append(front, x)

\* the title deduplication: sort by title, then collapse the runs of equal
\* titles  (responses.rs 214-215)
TitleDedup(s) == DedupByTitle(SortByKey(s, "title"))

\* responses.rs 193-213: type filter, conversion, date filter
Retained(name, albs_resp) ==
    SelectSeq([i \in 1..Len(SelectSeq(albs_resp, TypeAccepted)) |->
                  ToAlbum(name, SelectSeq(albs_resp, TypeAccepted)[i])],
              LAMBDA a : a.date # None)

\* responses.rs 193-217 on a decoded albs_resp: the Ok value of
\* Artist::get_albums_basic_filtered
BasicFilteredDedupFirst(name, albs_resp) ==
    LET typed == SelectSeq(albs_resp, TypeAccepted)
        albs == [i \in 1..Len(typed) |-> ToAlbum(name, typed[i])]
    IN  SortByKey(SelectSeq(DedupByTitle(SortByKey(albs, "title")),
                            LAMBDA a : a.date # None), "date")
BasicFiltered(name, albs_resp) ==
    SortByKey(TitleDedup(Retained(name, albs_resp)), "date")

\* names of artists (search strings, directory names, display names)
Names == {1, 2}

\* struct Artist  (responses.rs 31-40): the fields the commands read
Artist(id, name, search_string) ==
    [id |-> id, name |-> name, search_string |-> search_string]

\* no Artist: the call has not returned one
NoArtist == Artist(None, None, None)

\* the artists the catalog service knows, as <<id, name>>; a search may
\* match any of them
CatalogArtists == {<<1, 1>>, <<2, 2>>}

\* Artist::new(client, s, ratelimit) when the search matched
\* (responses.rs 119-127): the artists it may return. The first match of
\* a search is the artist of that name or one listed before it.
Resolved(s) == {Artist(m[1], m[2], s) : m \in {c \in CatalogArtists : c[2] <= s}}

\* resp.artists of a search for s (responses.rs 108-116, "limit" 3): no
\* match, one, or two of the artists a search for s may match
MatchSets(s) ==
    LET known == {c \in CatalogArtists : c[2] <= s} IN
    {<<>>} \cup {<<c>> : c \in known}
           \cup {m \in known \X known : m[1] # m[2]}

\* responses.rs 117-127, on a decoded response: Err(could not find UUID)
\* when there is no match, else the Artist made of the first match;
\* indexing an empty Vec panics
ArtistNewUnchecked(s, artists) ==
    IF artists = <<>> THEN [kind |-> "Panic", artist |-> NoArtist]
    ELSE [kind |-> "Ok", artist |-> Artist(artists[1][1], artists[1][2], s)]
ArtistNew(s, artists) ==
    IF artists = <<>> THEN [kind |-> "NotFound", artist |-> NoArtist]
    ELSE [kind |-> "Ok", artist |-> Artist(artists[1][1], artists[1][2], s)]

\* ========================================================================
\* Artist::get_albums  (responses.rs 131-182)
\* ========================================================================
\* The servers considered. An honest server holds T records, reports T as
\* its release-count in every response and answers a request for `offset`
\* with the next min(limit, T - offset) records. Any other server reports
\* its hint (or none) and answers each request with a page of some size, or
\* with a failure (transport error, non-success status, undecodable body).
Hints ==
    {None, 0, 1, HOW_MANY_RELEASE_RESULT, HOW_MANY_RELEASE_RESULT + 1, MaxHint}
Servers ==
    [honest : {TRUE}, T : 0..MaxHint] \cup [honest : {FALSE}, T : Hints]

\* page sizes a server that is not honest answers with
PageCounts == {0, 1, HOW_MANY_RELEASE_RESULT}

\* the records an honest server returns for a request at `offset`
HonestPage(T, offset) ==
    IF offset >= T THEN 0 ELSE Min(HOW_MANY_RELEASE_RESULT, T - offset)

\* resp.release_count.unwrap_or(0)  (responses.rs 154)
UnwrapOr0(release_count) == IF release_count = None THEN 0 ELSE release_count

\* the condition of `while all_releases.len() < total_results` (responses.rs 155)
KeepPagingOffByOne(len, total) == len + 1 < total
KeepPaging(len, total) == len < total

\* the "offset" query parameter of a follow-up request (responses.rs 166)
NextOffset(len) == len

\* the first request carries no offset parameter (responses.rs 143-147)
NoOffset == None

\* the number of records a response of this server carries, for a request at
\* `offset`: each n is one possible response
PageOf(offset) ==
    IF server.honest THEN {HonestPage(server.T, offset)} ELSE PageCounts

\* Result<Vec<ReleaseGroup>>, by the number of release groups it carries
NotReturned == [ok |-> FALSE, len |-> None]
GetAlbumsOk(len) == [ok |-> TRUE, len |-> len]
GetAlbumsErr == [ok |-> FALSE, len |-> 0]

\* `for _ in 0..10 { if let Err(sleep) = ratelimit.try_wait() { sleep;
\* continue; } }` (responses.rs 102-107, 134-139, 156-161) has no break: the
\* request behind it is sent when all its turns are over
GateLoopSkipped(tries) == TRUE
GateLoopDone(tries) == tries = GATE_TRIES

\* the call that is running is in front of a request
BeforeRequest ==
    \/ rpc = "start"
    \/ /\ rpc \in {"stored", "done"}
       /\ fpc \in {"start", "paging"}
       /\ requests < MaxRequests

\* one turn of the wait loop: try_wait answers Ok(()) or Err(sleep), and
\* after the sleep the loop goes on
TryWaitGivesUp ==
    /\ BeforeRequest
    /\ gate_tries < GATE_TRIES
    /\ gate_tries' = gate_tries + 1
    /\ \E wait \in BOOLEAN :
        /\ gate_waits' = (IF gate_tries = 0 THEN 0 ELSE gate_waits)
                            + (IF wait THEN 1 ELSE 0)
        /\ IF gate_tries' = GATE_TRIES /\ gate_waits' = GATE_TRIES
           THEN IF rpc = "start"
                THEN rpc' = "failed" /\ UNCHANGED <<fpc, returned>>
                ELSE fpc' = "failed" /\ returned' = GetAlbumsErr /\ UNCHANGED rpc
           ELSE UNCHANGED <<rpc, fpc, returned>>
    /\ UNCHANGED <<server, all_releases, total_results, requests, offsets,
                   search, resp, artist_found, pipeVars, stepVars, mainVars, tuiVars>>
TryWait ==
    /\ BeforeRequest
    /\ gate_tries < GATE_TRIES
    /\ gate_tries' = gate_tries + 1
    /\ \E wait \in BOOLEAN :
        gate_waits' = (IF gate_tries = 0 THEN 0 ELSE gate_waits)
                        + (IF wait THEN 1 ELSE 0)
    /\ UNCHANGED <<getAlbumsVars, resolveVars, pipeVars, stepVars, mainVars, tuiVars>>

\* responses.rs 108-127: the search request is answered and decoded
SearchRequest ==
    /\ rpc = "start"
    /\ GateLoopDone(gate_tries)
    /\ gate_tries' = 0
    /\ \E artists \in MatchSets(search) :
        LET r == ArtistNew(search, artists) IN
        /\ resp' = artists
        /\ artist_found' = r.artist
        /\ rpc' = IF r.kind = "Ok" THEN "done"
                  ELSE IF r.kind = "NotFound" THEN "not_found" ELSE "panicked"
    /\ UNCHANGED <<search, gate_waits, getAlbumsVars, pipeVars, stepVars, mainVars, tuiVars>>

\* responses.rs 108-116, 120: the search request fails (send, status,
\* decode, or an id that is no UUID)
SearchRequestFails ==
    /\ rpc = "start"
    /\ GateLoopDone(gate_tries)
    /\ gate_tries' = 0
    /\ rpc' = "failed"
    /\ UNCHANGED <<search, resp, artist_found, gate_waits, getAlbumsVars,
                   pipeVars, stepVars, mainVars, tuiVars>>

\* responses.rs 141-154: the first request, its decoding, the hint
FirstRequest ==
    /\ rpc \in {"stored", "done"}
    /\ fpc = "start"
    /\ GateLoopDone(gate_tries)
    /\ gate_tries' = 0
    /\ \E n \in PageOf(0) :
        /\ all_releases' = n
        /\ total_results' = UnwrapOr0(server.T)
        /\ requests' = requests + 1
        /\ offsets' = Append(offsets, NoOffset)
        /\ IF KeepPaging(n, UnwrapOr0(server.T))
           THEN fpc' = "paging" /\ UNCHANGED returned
           ELSE fpc' = "done" /\ returned' = GetAlbumsOk(n)
    /\ UNCHANGED <<server, gate_waits, resolveVars, pipeVars, stepVars, mainVars, tuiVars>>

\* Err(e) out of get_albums: `?` returns the error and drops all_releases
GetAlbumsFailsPartial(len) == GetAlbumsOk(len)
GetAlbumsFails(len) == GetAlbumsErr

\* responses.rs 148-152: the first request fails (send, status or decode)
FirstRequestFails ==
    /\ rpc \in {"stored", "done"}
    /\ fpc = "start"
    /\ GateLoopDone(gate_tries)
    /\ gate_tries' = 0
    /\ ~server.honest
    /\ requests' = requests + 1
    /\ offsets' = Append(offsets, NoOffset)
    /\ fpc' = "failed"
    /\ returned' = GetAlbumsFails(all_releases)
    /\ UNCHANGED <<server, all_releases, total_results, gate_waits, resolveVars,
                   pipeVars, stepVars, mainVars, tuiVars>>

\* responses.rs 155-179: one turn of the page loop
NextPage ==
    /\ fpc = "paging"
    /\ requests < MaxRequests
    /\ GateLoopDone(gate_tries)
    /\ gate_tries' = 0
    /\ \E n \in PageOf(NextOffset(all_releases)) :
        /\ all_releases' = all_releases + n
        /\ IF KeepPaging(all_releases + n, total_results)
           THEN fpc' = "paging" /\ UNCHANGED returned
           ELSE fpc' = "done" /\ returned' = GetAlbumsOk(all_releases + n)
    /\ requests' = requests + 1
    /\ offsets' = Append(offsets, NextOffset(all_releases))
    /\ UNCHANGED <<server, total_results, gate_waits, resolveVars,
                   pipeVars, stepVars, mainVars, tuiVars>>

\* responses.rs 170-177: a follow-up request fails; `?` returns the error
NextPageFails ==
    /\ fpc = "paging"
    /\ requests < MaxRequests
    /\ GateLoopDone(gate_tries)
    /\ gate_tries' = 0
    /\ ~server.honest
    /\ requests' = requests + 1
    /\ offsets' = Append(offsets, NextOffset(all_releases))
    /\ fpc' = "failed"
    /\ returned' = GetAlbumsFails(all_releases)
    /\ UNCHANGED <<server, all_releases, total_results, gate_waits, resolveVars,
                   pipeVars, stepVars, mainVars, tuiVars>>

\* get_albums before its first request, the wait loop not entered
FetchIdle ==
    /\ fpc = "start"
    /\ all_releases = 0
    /\ total_results = 0
    /\ requests = 0
    /\ offsets = <<>>
    /\ returned = NotReturned
    /\ gate_tries = 0
    /\ gate_waits = 0

\* Artist::new not called: the artist at hand was read from config.json
ResolveIdle ==
    /\ rpc = "stored"
    /\ search = 1
    /\ resp = <<>>
    /\ artist_found = NoArtist

\* no command of main.rs running, over a fresh default configuration
MainIdle ==
    /\ today = 1
    /\ config = [artist_names |-> <<>>, artist_full |-> <<>>,
                 last_checked_time |-> 1, previous |-> <<>>]
    /\ pc = "idle"
    /\ since = 1
    /\ idx = 1
    /\ all_albums = <<>>
    /\ errors = <<>>
    /\ fetched = <<>>
    /\ others = <<>>
    /\ albums = <<>>
    /\ todo = {}
    /\ found = <<>>
    /\ error_artist = <<>>

\* no curation session open
TuiClosed ==
    /\ init_tui = [old_albums |-> <<>>, new_albums |-> <<>>, new_other |-> <<>>]
    /\ app_albums = <<>>
    /\ app_other = <<>>
    /\ selected = None
    /\ tpc = "closed"
    /\ removed = {}

\* get_albums_basic_filtered not called
PipeIdle ==
    /\ self_name = 1
    /\ wire = <<>>
    /\ ppc = "call"
    /\ result = [ok |-> TRUE, albums |-> <<>>]

\* no list is being deduplicated, and the command line holds no day count
StepIdle ==
    /\ deduped = <<>>
    /\ days_arg = <<0, 0, 0, 0, 0, 0, 0, 0>>

\* the servers the --artist command is followed against
SpecificServers ==
    {[honest |-> TRUE, T |-> 0],
     [honest |-> TRUE, T |-> HOW_MANY_RELEASE_RESULT + 1]}

\* either get_albums is called on an artist of the stored roster
\* (main.rs 186-188), or the --artist command resolves its argument and
\* fetches the artist found (main.rs 331-335)
FetchInit ==
    /\ FetchIdle
    /\ PipeIdle
    /\ StepIdle
    /\ MainIdle
    /\ TuiClosed
    /\ \/ ResolveIdle /\ server \in Servers
       \/ /\ rpc = "start"
          /\ search \in Names
          /\ resp = <<>>
          /\ artist_found = NoArtist
          /\ server \in SpecificServers

FetchNext ==
    \/ TryWait
    \/ SearchRequest
    \/ SearchRequestFails
    \/ FirstRequest
    \/ FirstRequestFails
    \/ NextPage
    \/ NextPageFails

SpecFetch == FetchInit /\ [][FetchNext]_vars

\* ------------------------------------------------------------------------
\* C1: get_albums always terminates; in particular the page loop ends as
\* soon as a fetched page adds zero new records. Stated as the step
\* property a finite run refutes: a follow-up request that is answered
\* with an empty page is never followed by another turn of the loop.
\* The code has no such exit (responses.rs 155): the loop condition is
\* only `all_releases.len() < total_results`.
\* ------------------------------------------------------------------------
C1_EmptyPageEndsLoop ==
    [][(fpc = "paging" /\ requests' = requests + 1
            /\ all_releases' = all_releases)
        => fpc' # "paging"]_vars

\* ------------------------------------------------------------------------
\* C2 as stated: against an honest server with hint T the fetch returns
\* exactly T records after exactly ceil(T/P) requests.
\* ------------------------------------------------------------------------
C2_Original ==
    (server.honest /\ fpc = "done")
        => /\ all_releases = server.T
           /\ requests = CeilDiv(server.T, HOW_MANY_RELEASE_RESULT)

\* C2 amended: against an honest server with hint T the fetch returns
\* exactly T records after exactly max(1, ceil(T/P)) requests (the first
\* request is always sent: it is the one that carries the hint), and while
\* the loop runs fewer than ceil(T/P) requests have been sent.
C2_HonestFetch ==
    server.honest =>
        /\ fpc # "failed"
        /\ fpc = "done" =>
            /\ all_releases = server.T
            /\ requests = Max(1, CeilDiv(server.T, HOW_MANY_RELEASE_RESULT))
        /\ fpc = "paging" =>
            /\ all_releases = requests * HOW_MANY_RELEASE_RESULT
            /\ requests < CeilDiv(server.T, HOW_MANY_RELEASE_RESULT)

\* Scenario B: 250 records, three requests at offsets none, 100, 200
C2_Witness ==
    /\ server.honest /\ server.T = 250 /\ fpc = "done"
    /\ all_releases = 250
    /\ offsets = <<NoOffset, 100, 200>>

\* a step that sends a request: the search request of Artist::new or a
\* release-group request of get_albums
RequestSent ==
    \/ requests' = requests + 1
    \/ rpc = "start" /\ rpc' # "start"

\* ------------------------------------------------------------------------
\* C13: every request (the artist search, the first release page, every
\* later page) is sent only after at least one try_wait call made since the
\* request before it, and those calls are used up by the request.
\* ------------------------------------------------------------------------
C13_GateBeforeEveryRequest ==
    [][RequestSent => (gate_tries >= 1 /\ gate_tries' = 0)]_vars

\* the --artist command after its search request and its first page
\* request, the wait loop in front of the second page request over
C13_Witness ==
    /\ rpc = "done"
    /\ fpc = "paging"
    /\ requests = 1
    /\ gate_tries = GATE_TRIES

\* ------------------------------------------------------------------------
\* C14: the wait loop makes at most 10 try_wait calls for a request; when
\* it has made them the request is what comes next, whatever the answers
\* were; and a call fails only by a request that failed, never by the
\* limiter.
\* ------------------------------------------------------------------------
C14_GateLoopBounded ==
    [][/\ gate_tries' <= GATE_TRIES
       /\ gate_waits' <= gate_tries' \/ gate_tries' = 0
       /\ gate_tries = GATE_TRIES => RequestSent
       /\ (fpc' = "failed" /\ fpc # "failed") => RequestSent
       /\ (rpc' \in {"failed", "not_found"} /\ rpc = "start") => RequestSent
       /\ (BeforeRequest /\ gate_tries < GATE_TRIES) => ~RequestSent]_vars

\* a fetch that returned its records although try_wait answered
\* Err(sleep) all ten times in front of its request
C14_Witness ==
    /\ server.honest
    /\ fpc = "done"
    /\ returned.ok
    /\ requests = 1
    /\ gate_tries = 0
    /\ gate_waits = GATE_TRIES

\* ------------------------------------------------------------------------
\* C21: once try_wait has answered Ok(()) in the wait loop of a request,
\* try_wait is not called again for that request: a request takes one
\* permit.
\* ------------------------------------------------------------------------
C21_NoAcquireAfterGrant ==
    [][(gate_tries >= 1 /\ gate_waits < gate_tries)
        => gate_tries' # gate_tries + 1]_vars

\* the number an "offset" parameter stands for: none is the start
OffsetNumber(o) == IF o = NoOffset THEN 0 ELSE o

\* ------------------------------------------------------------------------
\* C20: within one fetch the offsets requested are strictly increasing:
\* the first request is at 0 (no offset), every later one is at a higher
\* offset than all before it, so no offset is requested twice.
\* ------------------------------------------------------------------------
C20_OffsetsIncrease ==
    /\ Len(offsets) = requests
    /\ Len(offsets) >= 1 => offsets[1] = NoOffset
    /\ \A i, j \in 1..Len(offsets) :
        i < j => OffsetNumber(offsets[i]) < OffsetNumber(offsets[j])

\* ========================================================================
\* Artist::get_albums_basic_filtered as a call  (responses.rs 186-218)
\* ========================================================================
\* longest list of release groups a call is given
MaxRaw == 2

Titles == {1, 2}
DateStrings ==
    {<<>>, <<BaseYear>>, <<BaseYear, 1>>, <<BaseYear, 1, 2>>, <<BaseYear, 3, 1>>}
\* primary-type and secondary-types of the release groups considered;
\* "Bogus" is a primary-type the enum does not know
TypePairs ==
    {<<NullType, <<>>>>, <<"EP", <<>>>>, <<"Bogus", <<>>>>,
     <<"Album", <<>>>>, <<"Album", <<"Live">>>>}

\* the lists of release groups a call is given: the record at position i
\* has id i
WireLists ==
    UNION { [1..n -> Titles \X DateStrings \X TypePairs] : n \in 0..MaxRaw }

WireOf(f) ==
    [i \in 1..Len(f) |-> RawRelease(i, f[i][1], f[i][3][1], f[i][2], f[i][3][2])]

\* Err(..), with no albums
Err == [ok |-> FALSE, albums |-> <<>>]
Ok(albs) == [ok |-> TRUE, albums |-> albs]

\* responses.rs 191: get_albums fails on an undecodable body and `?`
\* returns its error
BasicFilteredFails ==
    /\ ppc = "call"
    /\ ~Decodes(wire)
    /\ result' = Err
    /\ ppc' = "returned"
    /\ UNCHANGED <<self_name, wire, fetchVars, mainVars, tuiVars, stepVars>>

\* responses.rs 191-217: get_albums returned the release groups
BasicFilteredReturns ==
    /\ ppc = "call"
    /\ Decodes(wire)
    /\ result' = Ok(BasicFiltered(self_name, wire))
    /\ ppc' = "returned"
    /\ UNCHANGED <<self_name, wire, fetchVars, mainVars, tuiVars, stepVars>>

PipeInit ==
    /\ server = [honest |-> TRUE, T |-> 0]
    /\ FetchIdle
    /\ ResolveIdle
    /\ self_name = 1
    /\ \E f \in WireLists : wire = WireOf(f)
    /\ ppc = "call"
    /\ result = Ok(<<>>)
    /\ MainIdle
    /\ TuiClosed
    /\ StepIdle

PipeNext ==
    \/ BasicFilteredFails
    \/ BasicFilteredReturns

SpecPipe == PipeInit /\ [][PipeNext]_vars

\* ========================================================================
\* The title deduplication applied again to what it returned
\* ========================================================================

\* longest list deduplicated, and how often it is deduplicated
MaxDedup == 3
MaxPasses == 2

\* the lists of dated albums of one artist, up to MaxDedup long: the
\* album at position i has id i
DedupInputs ==
    {[i \in 1..n |-> Album(i, 1, f[i][1], f[i][2], "Album")] :
        n \in 0..MaxDedup, f \in [1..MaxDedup -> Titles \X (1..2)]}

\* albs.sort_by_key(|a| a.title.clone()); albs.dedup_by(..)
\* (responses.rs 214-215), on the list the last application returned
DedupAgain ==
    /\ Len(deduped) <= MaxPasses
    /\ deduped' = Append(deduped, TitleDedup(deduped[Len(deduped)]))
    /\ UNCHANGED <<days_arg, fetchVars, pipeVars, mainVars, tuiVars>>

DedupInit ==
    /\ server = [honest |-> TRUE, T |-> 0]
    /\ FetchIdle
    /\ ResolveIdle
    /\ PipeIdle
    /\ MainIdle
    /\ TuiClosed
    /\ \E l \in DedupInputs : deduped = <<l>>
    /\ days_arg = <<0, 0, 0, 0, 0, 0, 0, 0>>

DedupNext == DedupAgain

SpecDedup == DedupInit /\ [][DedupNext]_vars

\* ------------------------------------------------------------------------
\* C27: the title deduplication is idempotent: applied to a list it has
\* returned, it returns that list.
\* ------------------------------------------------------------------------
C27_TitleDedupIdempotent ==
    \A n \in 3..Len(deduped) : deduped[n] = deduped[2]

\* three albums of one title: the first application left one of them, and
\* so did the second
C27_Witness ==
    /\ Len(deduped) = 3
    /\ Len(deduped[1]) = 3
    /\ \A i \in 1..3 : deduped[1][i].title = deduped[1][1].title
    /\ Len(deduped[2]) = 1
    /\ deduped[3] = deduped[2]

\* the release groups of the call that pass the type filter and whose
\* date resolves
IsRetained(a) == TypeAccepted(a) /\ ParseDate(a.first_release_date) # None

\* ------------------------------------------------------------------------
\* C8: the type filter never drops a record because of its primary type: a
\* release group whose primary type is missing or unrecognized, whose date
\* resolves and whose title no other record of the call carries is in the
\* output, classified as Other, and a call given such a record does not
\* fail.
\* ------------------------------------------------------------------------
C8_UnknownTypeKeptAsOther ==
    ppc = "returned" =>
        /\ result.ok
        /\ \A i \in 1..Len(wire) :
            (/\ wire[i].primary_type \notin ReleaseType
             /\ ParseDate(wire[i].first_release_date) # None
             /\ \A k \in 1..Len(wire) : wire[k].title = wire[i].title => k = i)
            => \E j \in 1..Len(result.albums) :
                /\ result.albums[j].id = wire[i].id
                /\ result.albums[j].release_type = "Other"

\* ------------------------------------------------------------------------
\* C10: the output of one call holds no two records with the same title,
\* every title with at least one retained (type-accepted, dated) release
\* group is in the output exactly once, as one of those release groups, and
\* nothing else is in the output.
\* ------------------------------------------------------------------------
C10_OnePerTitle ==
    (ppc = "returned" /\ result.ok) =>
        LET out == result.albums IN
        /\ \A j, k \in 1..Len(out) : out[j].title = out[k].title => j = k
        /\ \A i \in 1..Len(wire) :
            IsRetained(wire[i])
            => Cardinality({j \in 1..Len(out) : out[j].title = wire[i].title}) = 1
        /\ \A j \in 1..Len(out) :
            \E i \in 1..Len(wire) :
                /\ IsRetained(wire[i])
                /\ out[j] = ToAlbum(self_name, wire[i])

\* Scenario C with an undated third: two dated release groups of one
\* title, or a dated one behind an undated one, give one output record
C10_Witness ==
    /\ ppc = "returned" /\ result.ok
    /\ Len(wire) = 2
    /\ wire[1].title = wire[2].title
    /\ TypeAccepted(wire[1]) /\ TypeAccepted(wire[2])
    /\ wire[1].first_release_date = <<BaseYear>>
    /\ wire[2].first_release_date = <<BaseYear, 3, 1>>
    /\ Len(result.albums) = 1
    /\ result.albums[1].id = 2

\* ========================================================================
\* The program of main.rs: configuration commands and the discovery run
\* ========================================================================
\* last day the clock reaches
MaxDay == 2
\* most artists in a roster
MaxRoster == 2
\* largest day count given to bump-back; the watermark is followed back to
\* day 0, the day before the first day of the clock
MaxBump == 1

\* Ordering, and Option<Ordering>
CmpNum(x, y) == IF x < y THEN "Less" ELSE IF x = y THEN "Equal" ELSE "Greater"
\* Option::or_else: the alternative is taken only for None
OrElse(opt, alt) == IF opt # "none" THEN opt ELSE alt
\* Ordering::then
Then(o, next) == IF o # "Equal" THEN o ELSE next

\* impl PartialOrd for Album  (responses.rs 81-88): partial_cmp of two
\* strings is always Some(..)
AlbumPartialCmp(a, b) ==
    OrElse(OrElse(CmpNum(a.artist, b.artist), CmpNum(a.date, b.date)),
           CmpNum(a.title, b.title))

\* impl Ord for Album  (responses.rs 90-97)
AlbumCmp(a, b) ==
    Then(Then(CmpNum(a.artist, b.artist), CmpNum(a.date, b.date)),
         CmpNum(a.title, b.title))

\* PartialOrd::lt, which the slice sorts compare with (its default body:
\* partial_cmp gives Some(Less))
AlbumLt(a, b) == AlbumPartialCmp(a, b) = "Less"

\* impl PartialOrd / Ord for Artist  (responses.rs 48-58)
ArtistLt(a, b) == CmpNum(a.name, b.name) = "Less"

\* the rearrangements of s
Rearranged(s) ==
    {[i \in 1..Len(s) |-> s[p[i]]] : p \in Permutations(1..Len(s))}

\* slice::sort_unstable on albums (main.rs 206): some rearrangement in which
\* no element is less than one before it; the order of elements neither of
\* which is less than the other is not determined
SortUnstableAlbums(s) ==
    {t \in Rearranged(s) :
        \A i, j \in 1..Len(t) : i < j => ~AlbumLt(t[j], t[i])}

\* slice::sort_unstable on artists (main.rs 147, 440)
SortUnstableArtists(s) ==
    {t \in Rearranged(s) :
        \A i, j \in 1..Len(t) : i < j => ~ArtistLt(t[j], t[i])}

\* Config::default  (main.rs 47-58)
ConfigDefault(now) ==
    [artist_names |-> <<>>, artist_full |-> <<>>,
     last_checked_time |-> now, previous |-> <<>>]

\* Config::now  (main.rs 94-98): today minus time::Duration::DAY
ConfigNowSameDay(c, now) == [c EXCEPT !.last_checked_time = now]
ConfigNow(c, now) == [c EXCEPT !.last_checked_time = now - 1]

\* a u64 is kept as its eight bytes, the lowest first; U64(n) is the u64 of
\* a number below 2^31
U64(n) ==
    <<n % 256, (n \div 256) % 256, (n \div 65536) % 256, n \div 16777216,
      0, 0, 0, 0>>

\* the bytes i..8 of b * k + carry * 256^(i-1), and behind them what is
\* carried out of the eighth byte
RECURSIVE MulFrom(_, _, _, _)
MulFrom(b, k, i, carry) ==
    IF i > 8 THEN <<carry>>
    ELSE LET t == b[i] * k + carry
         IN  <<t % 256>> \o MulFrom(b, k, i + 1, t \div 256)

\* the bytes 1..i of the quotient of b by k, rem being the remainder of
\* the bytes above i
RECURSIVE DivFrom(_, _, _, _)
DivFrom(b, k, i, rem) ==
    IF i = 0 THEN <<>>
    ELSE LET cur == rem * 256 + b[i]
         IN  Append(DivFrom(b, k, i - 1, cur % k), cur \div k)

\* a u64 that is at most i32::MAX, and its number
FitsI32(b) == b[4] < 128 /\ \A i \in 5..8 : b[i] = 0
IntOf(b) == b[1] + 256 * b[2] + 65536 * b[3] + 16777216 * b[4]

\* the seconds of a day as bump-back writes them  (main.rs 472)
SecondsPerDay == 60 * 60 * 24

\* Date::MIN, -9999-01-01, Julian day -1930999, as a day of the model:
\* day 0 is 2023-12-31, Julian day 2460310
DateMinDay == 0 - 1930999 - 2460310

\* what a command does to the watermark: it panics, or it stores a date
Panics == [panic |-> TRUE, date |-> 0]
Stores(d) == [panic |-> FALSE, date |-> d]

\* date - Duration::new(secs, 0), the time crate's Sub<std::time::Duration>
\* for Date (main.rs 472): the whole days of the duration are taken off
\* the Julian day; it panics when they exceed i32::MAX or the result is
\* before Date::MIN
DateMinusSeconds(date, secs) ==
    LET whole_days == DivFrom(secs, SecondsPerDay, 8, 0)
    IN  IF ~FitsI32(whole_days) THEN Panics
        ELSE IF IntOf(whole_days) > date - DateMinDay THEN Panics
        ELSE Stores(date - IntOf(whole_days))

\* c.last_checked_time -= Duration::new(60 * 60 * 24 * days, 0)
\* (main.rs 472): the product is a u64 product; where it overflows, a build
\* with overflow checks panics and a build without them goes on with the
\* low 64 bits
BumpedBack(date, days) ==
    LET product == MulFrom(days, SecondsPerDay, 1, 0)
        low == SubSeq(product, 1, 8)
    IN  IF product[9] # 0
        THEN {Panics, DateMinusSeconds(date, low)}
        ELSE {DateMinusSeconds(date, low)}

\* bump-back <days>  (main.rs 470-478); `after` is where the program is
\* when the command has stored the configuration
BumpBackWith(days, after) ==
    /\ pc = "idle"
    /\ \E o \in BumpedBack(config.last_checked_time, days) :
        IF o.panic
        THEN pc' = "panicked" /\ UNCHANGED config
        ELSE /\ config' = [config EXCEPT !.last_checked_time = o.date]
             /\ pc' = after
    /\ UNCHANGED <<today, runVars, fillVars, fetchVars, pipeVars, stepVars, tuiVars>>

\* directory listings handed to init --dir: sorted, each name once
\* (main.rs 273-280)
NameLists == {<<>>, <<1, 2>>}

\* the clock moves on between commands
Tick ==
    /\ pc = "idle"
    /\ today < MaxDay
    /\ today' = today + 1
    /\ UNCHANGED <<config, pc, runVars, fillVars, fetchVars, pipeVars, stepVars, tuiVars>>

\* init --dir, confirmed: get_artists_from_directory  (main.rs 270-288, 495-503)
InitDir ==
    /\ pc = "idle"
    /\ \E names \in NameLists :
        config' = [ConfigDefault(today) EXCEPT !.artist_names = names]
    /\ UNCHANGED <<today, pc, runVars, fillVars, fetchVars, pipeVars, stepVars, tuiVars>>

\* init --clear, confirmed  (main.rs 506-529)
InitClear ==
    /\ pc = "idle"
    /\ \/ config' = [config EXCEPT !.artist_full = <<>>]
       \/ config' = [config EXCEPT !.artist_names = <<>>]
       \/ config' = ConfigDefault(today)
    /\ UNCHANGED <<today, pc, runVars, fillVars, fetchVars, pipeVars, stepVars, tuiVars>>

\* add: the search succeeded  (main.rs 429-443): an artist whose id is
\* already in the roster is not added, otherwise the roster is extended,
\* sorted and written
Add ==
    /\ pc = "idle"
    /\ Len(config.artist_full) < MaxRoster
    /\ \E name \in Names : \E new_artist \in Resolved(name) :
        IF \E i \in 1..Len(config.artist_full) :
                config.artist_full[i].id = new_artist.id
        THEN UNCHANGED config
        ELSE \E sorted \in SortUnstableArtists(
                    Append(config.artist_full, new_artist)) :
                config' = [config EXCEPT !.artist_full = sorted]
    /\ UNCHANGED <<today, pc, runVars, fillVars, fetchVars, pipeVars, stepVars, tuiVars>>

\* c.artist_full without its first artist called name, if there is one
\* (main.rs 451-456)
RemoveNamed(roster, name) ==
    LET at == {i \in 1..Len(roster) : roster[i].name = name} IN
    IF at = {} THEN roster
    ELSE LET index == CHOOSE i \in at : \A k \in at : i <= k
         IN  SubSeq(roster, 1, index - 1) \o SubSeq(roster, index + 1, Len(roster))

\* delete <name>  (main.rs 449-459)
Delete ==
    /\ pc = "idle"
    /\ \E name \in Names :
        config' = [config EXCEPT !.artist_full = RemoveNamed(@, name)]
    /\ UNCHANGED <<today, pc, runVars, fillVars, fetchVars, pipeVars, stepVars, tuiVars>>

\* bump-back <days>  (main.rs 470-478)
BumpBack ==
    \E days \in 0..MaxBump :
        /\ config.last_checked_time - days >= 0
        /\ BumpBackWith(U64(days), "idle")

\* the lists of release groups one artist's fetch may return in a run,
\* each release group as
\* <<title, first-release-date, <<primary-type, secondary-types>>>>
RunLists ==
    LET album1 == <<1, <<BaseYear, 1, 1>>, <<"Album", <<>>>>>>
        album2 == <<2, <<BaseYear, 1, 2>>, <<"Album", <<>>>>>>
        ep2    == <<2, <<BaseYear, 1, 2>>, <<"EP", <<>>>>>>
        live2  == <<1, <<BaseYear, 1, 2>>, <<"Album", <<"Live">>>>>>
    IN  {<<ep2>>, <<live2>>, <<album2, album1>>}

\* what get_albums may return for artist a: the record at position i has
\* id 10 * a.id + i
RunWires(a) ==
    {[i \in 1..Len(f) |->
        RawRelease(10 * a.id + i, f[i][1], f[i][3][1], f[i][2], f[i][3][2])] :
     f \in RunLists}

\* new: the run starts  (main.rs 460-466, 172-185)
RunStart ==
    /\ pc = "idle"
    /\ config.artist_full # <<>>
    /\ pc' = "new"
    /\ since' = config.last_checked_time
    /\ idx' = 1
    /\ all_albums' = <<>>
    /\ errors' = <<>>
    /\ fetched' = <<>>
    /\ others' = <<>>
    /\ albums' = <<>>
    /\ UNCHANGED <<today, config, fillVars, fetchVars, pipeVars, stepVars, tuiVars>>

\* one turn of the roster loop, the fetch succeeded  (main.rs 186-190)
RunFetchOk ==
    /\ pc = "new"
    /\ idx <= Len(config.artist_full)
    /\ LET a == config.artist_full[idx] IN
       \E w \in RunWires(a) :
        /\ all_albums' = all_albums \o BasicFiltered(a.name, w)
        /\ fetched' = Append(fetched, [artist |-> a.id, ok |-> TRUE, wire |-> w])
    /\ idx' = idx + 1
    /\ UNCHANGED <<today, config, pc, since, errors, others, albums,
                   fillVars, fetchVars, pipeVars, stepVars, tuiVars>>

\* one turn of the roster loop, the fetch failed  (main.rs 186-192)
RunFetchAborts ==
    /\ pc = "new"
    /\ idx <= Len(config.artist_full)
    /\ errors' = Append(errors, config.artist_full[idx].id)
    /\ pc' = "ran"
    /\ UNCHANGED <<today, config, since, idx, all_albums, fetched, others,
                   albums, fillVars, fetchVars, pipeVars, stepVars, tuiVars>>
RunFetchErr ==
    /\ pc = "new"
    /\ idx <= Len(config.artist_full)
    /\ LET a == config.artist_full[idx] IN
        /\ errors' = Append(errors, a.id)
        /\ fetched' = Append(fetched, [artist |-> a.id, ok |-> FALSE, wire |-> <<>>])
    /\ idx' = idx + 1
    /\ UNCHANGED <<today, config, pc, since, all_albums, others, albums,
                   fillVars, fetchVars, pipeVars, stepVars, tuiVars>>

\* .filter(|a| a.date.is_some() && a.date.unwrap() >= c.last_checked_time)
\* (main.rs 202-205)
SelectNewStrict(albs, watermark) ==
    SelectSeq(albs, LAMBDA a : a.date # None /\ a.date > watermark)
SelectNew(albs, watermark) ==
    SelectSeq(albs, LAMBDA a : a.date # None /\ a.date >= watermark)

\* main.rs 208-213 and 216-220
OthersOf(res) == SelectSeq(res, LAMBDA a : a.release_type # "Album")
AlbumsOf(res) == SelectSeq(res, LAMBDA a : a.release_type = "Album")

\* the roster loop is over: filter, sort, partition, print, store
\* (main.rs 194-228)
RunFinish ==
    /\ pc = "new"
    /\ idx > Len(config.artist_full)
    /\ \E res \in SortUnstableAlbums(SelectNew(all_albums, config.last_checked_time)) :
        /\ others' = OthersOf(res)
        /\ albums' = AlbumsOf(res)
        /\ config' = ConfigNow([config EXCEPT !.previous = AlbumsOf(res)], today)
    /\ pc' = "ran"
    /\ UNCHANGED <<today, since, idx, all_albums, errors, fetched,
                   fillVars, fetchVars, pipeVars, stepVars, tuiVars>>

\* init --fill-ids: get_artist_ids starts  (main.rs 117-139)
FillStart ==
    /\ pc = "idle"
    /\ config.artist_names # <<>>
    /\ LET already_found_artists ==
               {config.artist_full[i].name : i \in 1..Len(config.artist_full)}
           artist_names ==
               {config.artist_names[i] : i \in 1..Len(config.artist_names)}
       IN  /\ Len(config.artist_full)
                + Cardinality(artist_names \ already_found_artists) <= MaxRoster
           /\ todo' = artist_names \ already_found_artists
    /\ found' = <<>>
    /\ error_artist' = <<>>
    /\ pc' = "fill"
    /\ UNCHANGED <<today, config, runVars, fetchVars, pipeVars, stepVars, tuiVars>>

\* what Artist::new leaves behind for the result r it gave
AfterArtistNew(r) ==
    IF r.kind = "Ok" THEN "done"
    ELSE IF r.kind = "NotFound" THEN "not_found" ELSE "panicked"

\* one turn of the resolve loop, in the hash set's order: the search of
\* Artist::new matched and gave Ok(a)  (main.rs 140-143)
FillResolveOk ==
    /\ pc = "fill"
    /\ \E i \in todo : \E artists \in MatchSets(i) :
        LET r == ArtistNew(i, artists) IN
        /\ r.kind = "Ok"
        /\ found' = Append(found, r.artist)
        /\ todo' = todo \ {i}
        /\ search' = i
        /\ resp' = artists
        /\ artist_found' = r.artist
        /\ rpc' = AfterArtistNew(r)
    /\ UNCHANGED <<today, config, pc, error_artist, runVars, getAlbumsVars,
                   gateVars, pipeVars, stepVars, tuiVars>>

\* one turn of the resolve loop: Err(e), the search matched nothing or its
\* request failed  (main.rs 140-145)
FillResolveErr ==
    /\ pc = "fill"
    /\ \E i \in todo :
        /\ error_artist' = Append(error_artist, i)
        /\ todo' = todo \ {i}
        /\ search' = i
        /\ artist_found' = NoArtist
        /\ \/ \E artists \in MatchSets(i) :
                LET r == ArtistNew(i, artists) IN
                /\ r.kind # "Ok"
                /\ resp' = artists
                /\ rpc' = AfterArtistNew(r)
           \/ /\ resp' = <<>>
              /\ rpc' = "failed"
    /\ UNCHANGED <<today, config, pc, found, runVars, getAlbumsVars, gateVars,
                   pipeVars, stepVars, tuiVars>>

\* the resolve loop is over: sort, write, report  (main.rs 147-168)
FillFinish ==
    /\ pc = "fill"
    /\ todo = {}
    /\ \E sorted \in SortUnstableArtists(config.artist_full \o found) :
        config' = [config EXCEPT !.artist_full = sorted]
    /\ pc' = "filled"
    /\ UNCHANGED <<today, todo, found, error_artist, runVars, fetchVars, pipeVars, stepVars, tuiVars>>

\* the command returns and the process ends  (main.rs 536-550)
Exit ==
    /\ pc \in {"ran", "filled"}
    /\ pc' = "idle"
    /\ since' = 1
    /\ idx' = 1
    /\ all_albums' = <<>>
    /\ errors' = <<>>
    /\ fetched' = <<>>
    /\ others' = <<>>
    /\ albums' = <<>>
    /\ todo' = {}
    /\ found' = <<>>
    /\ error_artist' = <<>>
    /\ rpc' = "stored"
    /\ search' = 1
    /\ resp' = <<>>
    /\ artist_found' = NoArtist
    /\ UNCHANGED <<today, config, getAlbumsVars, gateVars, pipeVars, stepVars, tuiVars>>

MainInit ==
    /\ server = [honest |-> TRUE, T |-> 0]
    /\ FetchIdle
    /\ ResolveIdle
    /\ PipeIdle
    /\ StepIdle
    /\ MainIdle
    /\ TuiClosed

MainNext ==
    \/ Tick
    \/ InitDir
    \/ InitClear
    \/ Add
    \/ Delete
    \/ BumpBack
    \/ RunStart
    \/ RunFetchOk
    \/ RunFetchErr
    \/ RunFinish
    \/ FillStart
    \/ FillResolveOk
    \/ FillResolveErr
    \/ FillFinish
    \/ Exit

Spec == MainInit /\ [][MainNext]_vars

\* ========================================================================
\* One bump-back command, over every kind of day count
\* ========================================================================

\* day counts of the command line: 0, 1, 2; 5000000, more days than there
\* are before the watermarks; 2^31; 213503982334601, the last whose seconds
\* fit a u64, and the two after it; u64::MAX
DayCounts ==
    {U64(0), U64(1), U64(2), U64(5000000),
     <<0, 0, 0, 128, 0, 0, 0, 0>>,
     <<137, 114, 6, 69, 46, 194, 0, 0>>,
     <<138, 114, 6, 69, 46, 194, 0, 0>>,
     <<139, 114, 6, 69, 46, 194, 0, 0>>,
     <<255, 255, 255, 255, 255, 255, 255, 255>>}

\* the stored watermarks: a day up to today, or one of the first two days
\* a Date can hold
BumpWatermarks(now) == 0..now \cup {DateMinDay, DateMinDay + 1}

\* the command of this process  (main.rs 470-478)
BumpBackArg == BumpBackWith(days_arg, "bumped")

BumpInit ==
    /\ server = [honest |-> TRUE, T |-> 0]
    /\ FetchIdle
    /\ ResolveIdle
    /\ PipeIdle
    /\ TuiClosed
    /\ deduped = <<>>
    /\ days_arg \in DayCounts
    /\ today \in 1..MaxDay
    /\ \E watermark \in BumpWatermarks(today) :
        config = [artist_names |-> <<>>, artist_full |-> <<>>,
                  last_checked_time |-> watermark, previous |-> <<>>]
    /\ pc = "idle"
    /\ since = 1
    /\ idx = 1
    /\ all_albums = <<>>
    /\ errors = <<>>
    /\ fetched = <<>>
    /\ others = <<>>
    /\ albums = <<>>
    /\ todo = {}
    /\ found = <<>>
    /\ error_artist = <<>>

BumpNext == BumpBackArg

SpecBump == BumpInit /\ [][BumpNext]_vars

\* ------------------------------------------------------------------------
\* C23: bump-back with day count n stores the watermark less n days, for
\* every n the command line accepts: it does not panic, and the seconds it
\* computes stand for n days.
\* ------------------------------------------------------------------------
C23_BumpBackSubtracts ==
    [][(pc = "idle" /\ pc' # "idle") =>
        /\ pc' = "bumped"
        /\ FitsI32(days_arg)
        /\ config'.last_checked_time =
            config.last_checked_time - IntOf(days_arg)]_vars

\* the elements of a sequence
Range(s) == {s[i] : i \in 1..Len(s)}

\* the ids of the artists whose fetch failed, in the order of the fetches
RECURSIVE FailedOf(_)
FailedOf(f) ==
    IF f = <<>> THEN <<>>
    ELSE LET front == FailedOf(SubSeq(f, 1, Len(f) - 1))
         IN  IF f[Len(f)].ok THEN front ELSE Append(front, f[Len(f)].artist)

\* ------------------------------------------------------------------------
\* C3: a failure for one artist never aborts a multi-artist run. In a
\* discovery run the artists are fetched in roster order, each once; the
\* error list holds exactly the artists whose fetch failed, in order; every
\* album of every artist whose fetch succeeded is in the run's list; and
\* when the run returns every roster artist has been processed and every
\* new album of the artists that did not fail is in its output. In a
\* resolution run every name is resolved at most once, and when it returns
\* every name has either failed or given an artist that is in the roster.
\* ------------------------------------------------------------------------
C3_FailureNeverAborts ==
    /\ pc \in {"new", "ran"} =>
        /\ Len(fetched) = idx - 1
        /\ idx - 1 <= Len(config.artist_full)
        /\ \A k \in 1..Len(fetched) :
            /\ fetched[k].artist = config.artist_full[k].id
            /\ fetched[k].ok =>
                Range(BasicFiltered(config.artist_full[k].name, fetched[k].wire))
                    \subseteq Range(all_albums)
        /\ errors = FailedOf(fetched)
    /\ pc = "ran" =>
        /\ Len(fetched) = Len(config.artist_full)
        /\ \A k \in 1..Len(fetched) :
            fetched[k].ok =>
                \A a \in Range(BasicFiltered(config.artist_full[k].name,
                                             fetched[k].wire)) :
                    a.date >= since => a \in Range(others) \cup Range(albums)
    /\ pc = "fill" =>
        LET names == Range(config.artist_names)
                        \ {a.name : a \in Range(config.artist_full)}
            done == {a.search_string : a \in Range(found)} \cup Range(error_artist)
        IN  /\ done \cup todo = names
            /\ done \cap todo = {}
            /\ Len(found) + Len(error_artist) = Cardinality(done)
    /\ pc = "filled" =>
        /\ todo = {}
        /\ Range(found) \subseteq Range(config.artist_full)

\* a run over two artists in which the first fails and the second's album
\* is found and printed
C3_Witness ==
    /\ pc = "ran"
    /\ Len(config.artist_full) = 2
    /\ errors = <<config.artist_full[1].id>>
    /\ fetched[2].ok
    /\ albums # <<>>
    /\ albums[1].artist = config.artist_full[2].name

\* ------------------------------------------------------------------------
\* C4: with a clock that never goes back, no step other than bump-back
\* moves the stored watermark to an earlier date.
\* ------------------------------------------------------------------------
C4_WatermarkMonotone ==
    [][BumpBack
        \/ config'.last_checked_time >= config.last_checked_time]_vars

\* ------------------------------------------------------------------------
\* C7: the discovery run itself changes neither the stored baseline nor
\* the stored watermark (they change only when the operator commits a
\* curation session).
\* ------------------------------------------------------------------------
C7_RunStoresNothing ==
    [][pc = "new" =>
        /\ config'.previous = config.previous
        /\ config'.last_checked_time = config.last_checked_time]_vars

\* ------------------------------------------------------------------------
\* C9: when a run has returned, every fetched release group whose primary
\* type is not Album, whose date resolves to the watermark or later and
\* whose title no other release group of its artist carries is in the
\* "Others" output and not in the "Albums" output; the two outputs share no
\* release and together hold every new release.
\* ------------------------------------------------------------------------
C9_NonAlbumIsOther ==
    pc = "ran" =>
        /\ \A k \in 1..Len(fetched) : \A i \in 1..Len(fetched[k].wire) :
            LET r == fetched[k].wire[i] IN
            (/\ fetched[k].ok
             /\ r.primary_type # "Album"
             /\ ParseDate(r.first_release_date) # None
             /\ ParseDate(r.first_release_date) >= since
             /\ \A j \in 1..Len(fetched[k].wire) :
                    fetched[k].wire[j].title = r.title => j = i)
            => /\ \E a \in Range(others) : a.id = r.id
               /\ \A a \in Range(albums) : a.id # r.id
        /\ \A a \in Range(others) : \A b \in Range(albums) : a.id # b.id
        /\ \A a \in Range(all_albums) :
            a.date >= since => a \in Range(others) \cup Range(albums)

\* how often x is in the sequence s
Count(s, x) == Cardinality({i \in 1..Len(s) : s[i] = x})

\* ------------------------------------------------------------------------
\* C15: a search that matched nothing makes Artist::new fail with "could
\* not find", without touching the empty match list and without an Artist;
\* the resolution run records that name once among its failures, pushes no
\* artist for it and goes on to its end; a run that found nothing leaves
\* the roster with the artists it had.
\* ------------------------------------------------------------------------
C15_NotFoundIsRecorded ==
    /\ [](/\ rpc # "panicked"
          /\ rpc \in {"done", "not_found"} => (rpc = "not_found" <=> resp = <<>>)
          /\ (pc \in {"fill", "filled"} /\ rpc = "not_found") =>
                /\ artist_found = NoArtist
                /\ Count(error_artist, search) = 1
                /\ \A a \in Range(found) : a.search_string # search)
    /\ [][(pc = "fill" /\ pc' = "filled" /\ found = <<>>) =>
            /\ Len(config'.artist_full) = Len(config.artist_full)
            /\ \A a \in Range(config.artist_full) :
                Count(config'.artist_full, a) = Count(config.artist_full, a)]_vars

\* a resolution run over one name that matched nothing, ended: one failure
\* recorded, the roster as it was
C15_Witness ==
    /\ pc = "filled"
    /\ rpc = "not_found"
    /\ resp = <<>>
    /\ error_artist = <<search>>
    /\ found = <<>>
    /\ Len(config.artist_full) = 1

\* ------------------------------------------------------------------------
\* C17: the roster never holds two artists with the same id.
\* ------------------------------------------------------------------------
C17_RosterIdsUnique ==
    \A i, j \in 1..Len(config.artist_full) :
        config.artist_full[i].id = config.artist_full[j].id => i = j

\* ------------------------------------------------------------------------
\* C22: the run stores as watermark the day before today, whatever the
\* watermark was; a run reads the stored watermark when it starts; and a
\* run puts out every album of its release list that is dated on its
\* watermark or later. So the run after a run puts out every album dated
\* on the day before the first run or later.
\* ------------------------------------------------------------------------
C22_AdvanceIsYesterday ==
    /\ [](pc = "ran" =>
            /\ config.last_checked_time = today - 1
            /\ \A a \in Range(all_albums) :
                a.date >= since => a \in Range(others) \cup Range(albums))
    /\ [][/\ ((pc = "new" /\ pc' = "ran") =>
                (config'.last_checked_time = today - 1))
           /\ ((pc = "idle" /\ pc' = "new") =>
                (since' = config.last_checked_time))]_vars

\* a run after a run of the same day: it put out an album dated the day
\* before, the day of its watermark
C22_Witness ==
    /\ pc = "ran"
    /\ since = today - 1
    /\ config.last_checked_time = since
    /\ \E a \in Range(albums) : a.date = today - 1

\* the albums of the fetches that succeeded, in the order of the fetches
RECURSIVE AlbumsOfFetches(_, _)
AlbumsOfFetches(roster, f) ==
    IF f = <<>> THEN <<>>
    ELSE AlbumsOfFetches(roster, SubSeq(f, 1, Len(f) - 1))
            \o (IF f[Len(f)].ok
                THEN BasicFiltered(roster[Len(f)].name, f[Len(f)].wire)
                ELSE <<>>)

\* ------------------------------------------------------------------------
\* C16: a fetch in which a request failed returns the error and no
\* records, however many records the pages before it had brought; a fetch
\* returns records only when it is done, and then all it accumulated. In a
\* run, the release list holds the albums of the fetches that succeeded and
\* nothing of a fetch that failed.
\* ------------------------------------------------------------------------
C16_FailedFetchReturnsNothing ==
    /\ fpc = "failed" => returned = GetAlbumsErr
    /\ fpc = "done" => returned = GetAlbumsOk(all_releases)
    /\ fpc \in {"start", "paging"} => returned = NotReturned
    /\ pc \in {"new", "ran"} =>
        all_albums = AlbumsOfFetches(config.artist_full, fetched)

\* a fetch whose third request failed after two pages of records
C16_Witness ==
    /\ fpc = "failed"
    /\ requests = 3
    /\ all_releases = 2 * HOW_MANY_RELEASE_RESULT
    /\ ~returned.ok /\ returned.len = 0

\* ========================================================================
\* The discovery run over a stored roster  (main.rs 172-229)
\* ========================================================================
\* the rosters a run is started over: one artist, two artists of different
\* names, and two artists (different ids) that carry the same name
RunRosters ==
    {<<Artist(1, 1, 1)>>,
     <<Artist(1, 1, 1), Artist(2, 2, 2)>>,
     <<Artist(2, 2, 2), Artist(3, 2, 2)>>}

\* `new` over a stored configuration: its watermark is today's date
\* (Config::default) or an earlier one
RunInit ==
    /\ server = [honest |-> TRUE, T |-> 0]
    /\ FetchIdle
    /\ ResolveIdle
    /\ PipeIdle
    /\ StepIdle
    /\ TuiClosed
    /\ today \in 1..MaxDay
    /\ \E roster \in RunRosters : \E watermark \in 0..today :
        config = [artist_names |-> <<>>, artist_full |-> roster,
                  last_checked_time |-> watermark, previous |-> <<>>]
    /\ pc = "idle"
    /\ since = 1
    /\ idx = 1
    /\ all_albums = <<>>
    /\ errors = <<>>
    /\ fetched = <<>>
    /\ others = <<>>
    /\ albums = <<>>
    /\ todo = {}
    /\ found = <<>>
    /\ error_artist = <<>>

RunNext ==
    \/ RunStart
    \/ RunFetchOk
    \/ RunFetchErr
    \/ RunFinish

SpecRun == RunInit /\ [][RunNext]_vars

\* (a.artist, a.date, a.title) <= (b.artist, b.date, b.title)
TripleLeq(a, b) ==
    \/ a.artist < b.artist
    \/ a.artist = b.artist /\ a.date < b.date
    \/ a.artist = b.artist /\ a.date = b.date /\ a.title <= b.title

SortedAscending(s) == \A i \in 1..(Len(s) - 1) : TripleLeq(s[i], s[i + 1])

\* ------------------------------------------------------------------------
\* C11: every list the pipeline puts out is ascending in (artist, date,
\* title): the list one call of get_albums_basic_filtered returns, and the
\* "Albums" and "Others" lists of a run.
\* ------------------------------------------------------------------------
C11_OutputsSorted ==
    /\ (ppc = "returned" /\ result.ok) => SortedAscending(result.albums)
    /\ pc \in {"new", "ran"} =>
        \A k \in 1..Len(fetched) :
            fetched[k].ok =>
                SortedAscending(BasicFiltered(config.artist_full[k].name,
                                              fetched[k].wire))
    /\ pc = "ran" => SortedAscending(albums) /\ SortedAscending(others)

\* ------------------------------------------------------------------------
\* C12: the two lists a run puts out hold, together, exactly the albums of
\* the run's release list that are dated on the watermark's day or later,
\* each as often as the release list holds it, and no other album.
\* ------------------------------------------------------------------------
C12_SelectNewExact ==
    pc = "ran" =>
        \A a \in Range(all_albums) \cup Range(others) \cup Range(albums) :
            Count(others, a) + Count(albums, a) =
                IF a.date # None /\ a.date >= since
                THEN Count(all_albums, a) ELSE 0

\* a run whose watermark is the day of one album and the day after
\* another's: the first is put out, the second is not
C12_Witness ==
    /\ pc = "ran"
    /\ \E a \in Range(albums) : a.date = since
    /\ \E b \in Range(all_albums) :
        /\ b.date = since - 1
        /\ b \notin Range(albums) \cup Range(others)

\* ------------------------------------------------------------------------
\* C26: every album a call returns has a date and carries the artist's
\* display name, and no album comes from a release group whose date is
\* absent or is not a full year-month-day (a year, or a year and a month).
\* ------------------------------------------------------------------------
C26_OutputIsDatedAndStamped ==
    (ppc = "returned" /\ result.ok) =>
        /\ \A j \in 1..Len(result.albums) :
            /\ result.albums[j].date # None
            /\ result.albums[j].artist = self_name
        /\ \A i \in 1..Len(wire) :
            (Len(wire[i].first_release_date) # 3) =>
                \A j \in 1..Len(result.albums) : result.albums[j].id # wire[i].id

\* a call given a year-only Album and a fully dated Album of another
\* title: only the second is returned
C26_Witness ==
    /\ ppc = "returned" /\ result.ok
    /\ Len(wire) = 2
    /\ TypeAccepted(wire[1]) /\ TypeAccepted(wire[2])
    /\ wire[1].title # wire[2].title
    /\ wire[1].first_release_date = <<BaseYear>>
    /\ wire[2].first_release_date = <<BaseYear, 1, 2>>
    /\ Len(result.albums) = 1
    /\ result.albums[1].id = 2

\* ------------------------------------------------------------------------
\* C29: partial_cmp and cmp of Album agree on every two albums.
\* ------------------------------------------------------------------------
C29_ComparisonsAgree ==
    \A a \in Range(all_albums) : \A b \in Range(all_albums) :
        AlbumPartialCmp(a, b) = AlbumCmp(a, b)

\* the release groups the run was given by the fetches that succeeded
FetchedRaw ==
    UNION {Range(fetched[k].wire) : k \in {n \in 1..Len(fetched) : fetched[n].ok}}

\* the ids of the albums of a list
IdsOf(s) == {s[i].id : i \in 1..Len(s)}

\* ------------------------------------------------------------------------
\* C28: an album that a run puts out has as release type the first
\* secondary type of its release group, Album if the group has none. The
\* album list of the run holds exactly the new releases (the pipeline's
\* albums dated on the watermark or later) whose group has primary type
\* Album and no secondary type; a new release whose group has a secondary
\* type is in the other list and not in the album list.
\* ------------------------------------------------------------------------
C28_SecondaryTypeDecides ==
    pc = "ran" =>
        \A r \in FetchedRaw :
            LET new_release == \E a \in Range(all_albums) :
                                  a.id = r.id /\ a.date >= since
                plain == r.primary_type = "Album" /\ r.secondary_types = <<>>
            IN  /\ \A a \in Range(others) \cup Range(albums) :
                    a.id = r.id =>
                        a.release_type = (IF r.secondary_types # <<>>
                                          THEN r.secondary_types[1]
                                          ELSE "Album")
                /\ (r.id \in IdsOf(albums)) <=> (new_release /\ plain)
                /\ (new_release /\ ~plain) => (r.id \in IdsOf(others))

\* a run that found a plain Album and a live Album: the first is in the
\* album list, the second in the other list with release type Live
C28_Witness ==
    /\ pc = "ran"
    /\ \E r \in FetchedRaw :
        /\ r.primary_type = "Album" /\ r.secondary_types = <<"Live">>
        /\ \E a \in Range(others) : a.id = r.id /\ a.release_type = "Live"
        /\ r.id \notin IdsOf(albums)
    /\ \E r \in FetchedRaw :
        /\ r.primary_type = "Album" /\ r.secondary_types = <<>>
        /\ r.id \in IdsOf(albums)

\* ========================================================================
\* The curation session  (tui.rs)
\* ========================================================================
\* longest old_albums and new_albums list a session is started with
MaxSession == 2

\* selections above this index are not followed further
MaxIndex == 3

\* usize::MAX, as far as the selection is concerned: an index beyond every
\* list (tui.rs 73, TableState::select_previous with nothing selected)
UsizeMax == 2147483647

\* Vec::dedup() under impl PartialEq for Album, which compares the ids
\* (tui.rs 32, responses.rs 75-79): of each run of consecutive equal ids the
\* first element stays
RECURSIVE DedupById(_)
DedupById(s) ==
    IF Len(s) <= 1 THEN s
    ELSE LET front == DedupById(SubSeq(s, 1, Len(s) - 1))
             x == s[Len(s)]
         IN  IF front[Len(front)].id = x.id THEN front ELSE Append(front, x)

\* the session list at entry  (tui.rs 28-33)
EntryAlbumsNoDedup(init) ==
    SortByKey(SortByKey(init.old_albums \o init.new_albums, "id"), "date")
EntryAlbums(init) ==
    SortByKey(DedupById(SortByKey(init.old_albums \o init.new_albums, "id")),
              "date")

\* the stateful table widget's rendering in draw (tui.rs 41-43, 156): a
\* selection beyond the last row is moved to the last row, and nothing is
\* selected in an empty table
Drawn(sel, len) ==
    IF len = 0 THEN None
    ELSE IF sel # None /\ sel >= len THEN len - 1
    ELSE sel

\* the selection after draw (tui.rs 41-43, 144-158): the widget corrects
\* the selection when it renders its rows, and renders no row and leaves
\* the selection as it was where the layout gives the table an empty area
\* (a terminal of a few lines)
Draws(sel, len) == {Drawn(sel, len), sel}

\* the selections the model follows
Followed(sel) == sel = None \/ sel <= MaxIndex \/ sel = UsizeMax

\* TableState::select_previous  (tui.rs 73)
SelectPrevious(sel) ==
    IF sel = None THEN UsizeMax ELSE IF sel = 0 THEN 0 ELSE sel - 1

\* TableState::select_next  (tui.rs 74)
SelectNext(sel) ==
    IF sel = None THEN 0 ELSE IF sel = UsizeMax THEN UsizeMax ELSE sel + 1

\* Vec::remove(index), index 0-based and within the list  (tui.rs 77)
RemoveNextIndex(s, index) == SubSeq(s, 1, index + 1) \o SubSeq(s, index + 3, Len(s))
RemoveAt(s, index) == SubSeq(s, 1, index) \o SubSeq(s, index + 2, Len(s))

\* what `s` stores  (tui.rs 48-50): the stored configuration with the
\* session list as its baseline, and Config::now (config.rs 77-81)
SavedKeepsBaseline(c, session, now) == ConfigNow(c, now)
Saved(c, session, now) == ConfigNow([c EXCEPT !.previous = session], now)

\* Up  (tui.rs 41-43, 73)
TuiUp ==
    /\ tpc = "browsing"
    /\ \E sel \in Draws(selected, Len(app_albums)) :
        /\ Followed(SelectPrevious(sel))
        /\ selected' = SelectPrevious(sel)
    /\ UNCHANGED <<init_tui, app_albums, app_other, tpc, removed,
                   fetchVars, pipeVars, stepVars, mainVars>>

\* Down  (tui.rs 41-43, 74)
TuiDown ==
    /\ tpc = "browsing"
    /\ \E sel \in Draws(selected, Len(app_albums)) :
        /\ Followed(SelectNext(sel))
        /\ selected' = SelectNext(sel)
    /\ UNCHANGED <<init_tui, app_albums, app_other, tpc, removed,
                   fetchVars, pipeVars, stepVars, mainVars>>

\* Delete or `d`  (tui.rs 41-43, 75-79): Vec::remove panics on an index
\* that is not in the list
TuiRemove ==
    /\ tpc = "browsing"
    /\ \E sel \in Draws(selected, Len(app_albums)) :
        /\ selected' = sel
        /\ IF sel = None
           THEN UNCHANGED <<app_albums, removed, tpc>>
           ELSE IF sel >= Len(app_albums)
           THEN tpc' = "panicked" /\ UNCHANGED <<app_albums, removed>>
           ELSE /\ app_albums' = RemoveAt(app_albums, sel)
                /\ removed' = removed \cup {app_albums[sel + 1].id}
                /\ UNCHANGED tpc
    /\ UNCHANGED <<init_tui, app_other, fetchVars, pipeVars, stepVars, mainVars>>

\* `s`  (tui.rs 41-53): the stored configuration is read, given the session
\* list as its baseline and today's watermark, and written
TuiSave ==
    /\ tpc = "browsing"
    /\ selected' \in Draws(selected, Len(app_albums))
    /\ config' = Saved(config, app_albums, today)
    /\ tpc' = "saved"
    /\ UNCHANGED <<init_tui, app_albums, app_other, removed, today, pc,
                   runVars, fillVars, fetchVars, pipeVars, stepVars>>

\* `q` or Esc  (tui.rs 41-43, 54-58, 72)
TuiDoNotSaveStores ==
    /\ tpc = "browsing"
    /\ selected' \in Draws(selected, Len(app_albums))
    /\ config' = [config EXCEPT !.previous = app_albums]
    /\ tpc' = "not_saved"
    /\ UNCHANGED <<init_tui, app_albums, app_other, removed, today, pc,
                   runVars, fillVars, fetchVars, pipeVars, stepVars>>
TuiDoNotSave ==
    /\ tpc = "browsing"
    /\ selected' \in Draws(selected, Len(app_albums))
    /\ tpc' = "not_saved"
    /\ UNCHANGED <<init_tui, app_albums, app_other, removed,
                   fetchVars, pipeVars, stepVars, mainVars>>

\* the albums sessions are started with: X and Y by artist 1, Z by artist
\* 2, and an EP for the read-only list
AlbumX == Album(11, 1, 1, 1, "Album")
AlbumY == Album(12, 1, 2, 2, "Album")
AlbumZ == Album(21, 2, 1, 1, "Album")
AlbumE == Album(13, 1, 2, 2, "EP")

\* lists of different albums, up to MaxSession long
SessionLists ==
    {s \in UNION {[1..n -> {AlbumX, AlbumY, AlbumZ}] : n \in 0..MaxSession} :
        \A i, j \in 1..Len(s) : s[i] = s[j] => i = j}

\* tui::run(init) up to its loop  (tui.rs 22-39), over a stored
\* configuration
TuiInit ==
    /\ server = [honest |-> TRUE, T |-> 0]
    /\ FetchIdle
    /\ ResolveIdle
    /\ PipeIdle
    /\ StepIdle
    /\ today \in 1..MaxDay
    /\ \E stored \in {<<>>, <<AlbumX>>, <<AlbumZ, AlbumY>>} :
       \E watermark \in {today - 1, today} :
        config = [artist_names |-> <<>>, artist_full |-> <<>>,
                  last_checked_time |-> watermark, previous |-> stored]
    /\ pc = "idle"
    /\ since = 1
    /\ idx = 1
    /\ all_albums = <<>>
    /\ errors = <<>>
    /\ fetched = <<>>
    /\ others = <<>>
    /\ albums = <<>>
    /\ todo = {}
    /\ found = <<>>
    /\ error_artist = <<>>
    /\ init_tui \in [old_albums : SessionLists, new_albums : SessionLists,
                     new_other : {<<>>, <<AlbumE>>}]
    /\ app_albums = EntryAlbums(init_tui)
    /\ app_other = init_tui.new_other
    /\ selected = 0
    /\ tpc = "browsing"
    /\ removed = {}

TuiNext ==
    \/ TuiUp
    \/ TuiDown
    \/ TuiRemove
    \/ TuiSave
    \/ TuiDoNotSave

SpecTui == TuiInit /\ [][TuiNext]_vars

\* ------------------------------------------------------------------------
\* C5: after commit the stored baseline is exactly the session list as it
\* was on entry without the entries the operator removed, in the same
\* order, and the stored watermark is the day before today; the rest of
\* the stored configuration is as it was.
\* ------------------------------------------------------------------------
C5_CommitStoresSession ==
    tpc = "saved" =>
        /\ config.previous =
            SelectSeq(EntryAlbums(init_tui), LAMBDA a : a.id \notin removed)
        /\ config.previous = app_albums
        /\ config.last_checked_time = today - 1
        /\ config.artist_full = <<>> /\ config.artist_names = <<>>

\* Scenario E: baseline [X], new discoveries [Y], remove X, commit
C5_Witness ==
    /\ tpc = "saved"
    /\ init_tui.old_albums = <<AlbumX>>
    /\ init_tui.new_albums = <<AlbumY>>
    /\ removed = {AlbumX.id}
    /\ config.previous = <<AlbumY>>

\* ------------------------------------------------------------------------
\* C6: no step of a session other than commit changes what is stored: not
\* a move, not a remove, and not the discard that ends it.
\* ------------------------------------------------------------------------
C6_DiscardStoresNothing ==
    [][(tpc = "browsing" /\ tpc' # "saved") => config' = config]_vars

\* a session discarded after a move and a remove
C6_Witness ==
    /\ tpc = "not_saved"
    /\ removed # {}
    /\ Len(app_albums) < Len(EntryAlbums(init_tui))
    /\ config.previous # app_albums

\* the ids of the albums of a list
Ids(s) == {s[i].id : i \in 1..Len(s)}

\* ------------------------------------------------------------------------
\* C18: in a session the list holds no id twice, and it holds exactly the
\* ids of the previous baseline and the new album-type discoveries that the
\* operator has not removed (at entry: all of them).
\* ------------------------------------------------------------------------
C18_SessionIdsUnique ==
    tpc # "closed" =>
        /\ \A i, j \in 1..Len(app_albums) :
            app_albums[i].id = app_albums[j].id => i = j
        /\ Ids(app_albums) =
            (Ids(init_tui.old_albums) \cup Ids(init_tui.new_albums)) \ removed
        /\ Ids(EntryAlbums(init_tui)) =
            Ids(init_tui.old_albums) \cup Ids(init_tui.new_albums)

\* a session over a baseline and discoveries that share an album, after a
\* remove
C18_Witness ==
    /\ tpc = "browsing"
    /\ Ids(init_tui.old_albums) \cap Ids(init_tui.new_albums) # {}
    /\ Len(init_tui.old_albums) + Len(init_tui.new_albums) = 4
    /\ Len(app_albums) = 2
    /\ removed # {}

\* ------------------------------------------------------------------------
\* C19: in a session the list is ascending in (artist, date, title), at
\* entry and after every move and remove.
\* ------------------------------------------------------------------------
C19_SessionSorted ==
    tpc # "closed" => SortedAscending(app_albums)

\* ------------------------------------------------------------------------
\* C24: whatever ups, downs and removes came before, a remove asks
\* Vec::remove for an index that is in the session list; on the empty list
\* it does nothing: the session never panics.
\* ------------------------------------------------------------------------
C24_RemoveWithinBounds == tpc # "panicked"

\* ------------------------------------------------------------------------
\* C25: a step that changes the session list takes out the one entry at
\* the selection and keeps the other entries in their order; it leaves the
\* stored configuration alone. No step changes the other list, and what a
\* commit stores as baseline is the session list, no entry of the other
\* list.
\* ------------------------------------------------------------------------
C25_RemoveTakesOne ==
    [][/\ app_other' = app_other
       /\ (app_albums' # app_albums) =>
            /\ selected' \in 0..(Len(app_albums) - 1)
            /\ Len(app_albums') = Len(app_albums) - 1
            /\ \A i \in 1..Len(app_albums') :
                app_albums'[i] = (IF i <= selected' THEN app_albums[i]
                                  ELSE app_albums[i + 1])
            /\ config' = config
       /\ (config' # config) =>
            /\ tpc' = "saved"
            /\ config'.previous = app_albums
            /\ app_albums' = app_albums]_vars

\* a session of three entries and an other list, after the remove of the
\* middle entry: the first and the last are left, in their order
C25_Witness ==
    /\ tpc = "browsing"
    /\ app_other # <<>>
    /\ Len(EntryAlbums(init_tui)) = 3
    /\ removed = {EntryAlbums(init_tui)[2].id}
    /\ app_albums = <<EntryAlbums(init_tui)[1], EntryAlbums(init_tui)[3]>>
    /\ config.previous = init_tui.old_albums

====
